---- MODULE Spec2Model ----
(***************************************************************************)
(* Model of the Cantonese lyric tools: the tone tables and the syllable    *)
(* parser of canmcp/tone_mapper.py, and the rhyme dataset, the character   *)
(* index and the rhyme queries of tinci_mcp/rhyme_lookup.py.               *)
(*                                                                         *)
(* Python values are modelled as follows.  An optional value is <<>>       *)
(* (None) or <<v>>.  A dict whose key order matters (the rhyme data) is a  *)
(* sequence of [key, value] records with distinct keys; the character      *)
(* index, which the code only reads with .get, is a function.  A string    *)
(* that the code inspects (a Jyutping syllable given to the tone parser)   *)
(* is a sequence of one-character strings; a string the code only copies   *)
(* or compares is a TLA+ string, or a tuple of its parts where the code    *)
(* formats it.                                                             *)
(***************************************************************************)
EXTENDS Integers, Sequences, FiniteSets, TLC

VARIABLES
    rhyme_file,     \* content of data/rhymes.json, as json.load parses it
    file_state,     \* "ok", "missing" (open fails) or "corrupt" (json.load fails)
    data_cache,     \* lru_cache of load_rhyme_data: None or <<rhyme data>>
    index_cache,    \* lru_cache of build_character_index: None or <<index>>
    load_calls,     \* number of executions of the body of load_rhyme_data
    build_calls,    \* number of executions of the body of build_character_index
    call,           \* the last request served: [op |-> ..., arguments]
    result,         \* what that request returned (None when it raised)
    raised,         \* None, or <<the exception that request let escape>>
    pc,             \* per thread: position inside a request
    frame           \* per thread: local variables of the running request

vars == <<rhyme_file, file_state, data_cache, index_cache, load_calls,
          build_calls, call, result, raised, pc, frame>>

None == <<>>
Some(v) == <<v>>

(***************************************************************************)
(* Bounds of the model.                                                    *)
(***************************************************************************)
\* total number of readings in the data file
MaxReadings == 3
\* number of times the body of load_rhyme_data, and of build_character_index,
\* runs where a failing body keeps being called again
MaxCalls == 2
\* number of (character, jyutping) pairs given to analyze_tones
MaxPairs == 2
\* number of threads serving requests at the same time
NumThreads == 2

Threads == 1 .. NumThreads

(***************************************************************************)
(* Python built-ins used by the code.                                      *)
(***************************************************************************)

\* a slice that drops one element too many
PySliceTo_short(s, n) ==
    LET stop == IF n >= 0 THEN (IF n < Len(s) THEN n ELSE Len(s))
                ELSE (IF Len(s) + n > 0 THEN Len(s) + n ELSE 0)
    IN  SubSeq(s, 1, stop - 1)

\* s[:n] for a list s and an integer n, negative n counting from the end
PySliceTo(s, n) ==
    LET stop == IF n >= 0 THEN (IF n < Len(s) THEN n ELSE Len(s))
                ELSE (IF Len(s) + n > 0 THEN Len(s) + n ELSE 0)
    IN  SubSeq(s, 1, stop)

\* code points of the strings that get sorted
CodePoints(s) ==
    CASE s = "aa" -> <<97, 97>>
      [] s = "o"  -> <<111>>
      [] s = "oi" -> <<111, 105>>
      [] s = "zzz" -> <<122, 122, 122>>

RECURSIVE SeqLess(_, _)
\* a < b for two sequences of code points, as Python compares strings
SeqLess(a, b) ==
    IF a = <<>> THEN b # <<>>
    ELSE IF b = <<>> THEN FALSE
    ELSE IF Head(a) # Head(b) THEN Head(a) < Head(b)
    ELSE SeqLess(Tail(a), Tail(b))

StrLess(a, b) == SeqLess(CodePoints(a), CodePoints(b))

RECURSIVE InsertSorted(_, _)
InsertSorted(x, s) ==
    IF s = <<>> THEN <<x>>
    ELSE IF StrLess(x, Head(s)) THEN <<x>> \o s
    ELSE <<Head(s)>> \o InsertSorted(x, Tail(s))

RECURSIVE Sorted(_)
\* sorted(s) for a list of strings
Sorted(s) == IF s = <<>> THEN <<>> ELSE InsertSorted(Head(s), Sorted(Tail(s)))

\* the outcome of a call: a returned value, or a raised exception
Return(v) == [ok |-> TRUE, value |-> v]
Raise(e) == [ok |-> FALSE, error |-> e]

\* Characters of Unicode category Nd (decimal digits) with their values: the
\* ASCII digits and, standing for the others, FULLWIDTH DIGIT FIVE.
DecimalValue ==
    ("0" :> 0) @@ ("1" :> 1) @@ ("2" :> 2) @@ ("3" :> 3) @@ ("4" :> 4) @@
    ("5" :> 5) @@ ("6" :> 6) @@ ("7" :> 7) @@ ("8" :> 8) @@ ("9" :> 9) @@
    ("U+FF15" :> 5)

\* Characters with Numeric_Type=Digit that are no decimal digits, standing for
\* them SUPERSCRIPT TWO.
DigitNotDecimal == {"U+00B2"}

\* str.isdigit() of a one-character string
isdigit(ch) == ch \in DOMAIN DecimalValue \/ ch \in DigitNotDecimal

\* int() of a one-character string
int(ch) ==
    IF ch \in DOMAIN DecimalValue THEN Return(DecimalValue[ch])
    ELSE Raise("ValueError")

(***************************************************************************)
(* canmcp/tone_mapper.py                                                   *)
(***************************************************************************)

TONE_TO_1056_alt ==
    (1 :> "1") @@ (2 :> "1") @@ (7 :> "1") @@ (4 :> "0") @@ (3 :> "5") @@
    (5 :> "5") @@ (8 :> "6") @@ (6 :> "6") @@ (9 :> "6")

TONE_TO_1056 ==
    (1 :> "1") @@ (2 :> "1") @@ (7 :> "1") @@ (4 :> "0") @@ (3 :> "5") @@
    (5 :> "5") @@ (8 :> "5") @@ (6 :> "6") @@ (9 :> "6")

TONE_TO_0243 ==
    (1 :> "3") @@ (2 :> "3") @@ (7 :> "3") @@ (4 :> "0") @@ (3 :> "2") @@
    (5 :> "2") @@ (8 :> "2") @@ (6 :> "4") @@ (9 :> "4")

\* dict.get(key, default)
DictGet(d, k, default) == IF k \in DOMAIN d THEN d[k] ELSE default

map_tone(tone, system) ==
    LET mapping == IF system = "1056" THEN TONE_TO_1056 ELSE TONE_TO_0243
    IN  DictGet(mapping, tone, "?")

extract_tone_from_jyutping(jyutping) ==
    \* "not jyutping": None and the empty string are both <<>> here
    IF jyutping = <<>> THEN Return(None)
    ELSE LET last_char == jyutping[Len(jyutping)]
         IN  IF isdigit(last_char)
             THEN LET tone == int(last_char)
                  IN  IF ~tone.ok THEN tone
                      ELSE IF 1 <= tone.value /\ tone.value <= 9
                           THEN Return(Some(tone.value))
                           ELSE Return(None)
             ELSE Return(None)

RECURSIVE analyze_loop(_, _, _, _, _)
\* the for loop of analyze_tones, from pair i on
analyze_loop(jyutping_pairs, system, i, breakdown, pattern_chars) ==
    IF i > Len(jyutping_pairs)
    THEN Return([system |-> system, pattern |-> pattern_chars,
                 breakdown |-> breakdown])
    ELSE LET char == jyutping_pairs[i][1]
             jyutping == jyutping_pairs[i][2]
             tone == extract_tone_from_jyutping(jyutping)
         IN  IF ~tone.ok THEN tone
             ELSE IF tone.value # None
             THEN LET mapped == map_tone(tone.value[1], system)
                  IN  analyze_loop(jyutping_pairs, system, i + 1,
                          Append(breakdown,
                              [character |-> char, jyutping |-> jyutping,
                               tone |-> tone.value, mapped |-> Some(mapped)]),
                          Append(pattern_chars, mapped))
             ELSE analyze_loop(jyutping_pairs, system, i + 1,
                      Append(breakdown,
                          [character |-> char, jyutping |-> jyutping,
                           tone |-> None, mapped |-> None]),
                      pattern_chars)

\* pattern is the list of one-character labels that "".join concatenates
analyze_tones(jyutping_pairs, system) ==
    analyze_loop(jyutping_pairs, system, 1, <<>>, <<>>)

(***************************************************************************)
(* tinci_mcp/rhyme_lookup.py                                               *)
(***************************************************************************)

\* The tables rhyme_lookup.py imports from tinci_mcp.tone_mapper.
tinci_TONE_TO_1056 ==
    (1 :> "1") @@ (2 :> "1") @@ (7 :> "1") @@ (4 :> "0") @@ (3 :> "5") @@
    (5 :> "5") @@ (8 :> "5") @@ (6 :> "6") @@ (9 :> "6")

tinci_TONE_TO_0243 ==
    (1 :> "3") @@ (2 :> "3") @@ (7 :> "3") @@ (4 :> "0") @@ (3 :> "2") @@
    (5 :> "2") @@ (8 :> "2") @@ (6 :> "4") @@ (9 :> "4")

\* rhyme_data.keys(), in stored order
Keys(rhyme_data) == [i \in 1 .. Len(rhyme_data) |-> rhyme_data[i].key]

\* final in rhyme_data
HasKey(rhyme_data, final) == \E i \in 1 .. Len(rhyme_data) : rhyme_data[i].key = final

\* rhyme_data.get(final, {})
DataGet(rhyme_data, final) ==
    IF HasKey(rhyme_data, final)
    THEN rhyme_data[CHOOSE i \in 1 .. Len(rhyme_data) : rhyme_data[i].key = final].value
    ELSE [x \in {} |-> x]

\* data.get("characters", [])
GetCharacters(data) == IF "characters" \in DOMAIN data THEN data.characters ELSE <<>>

\* the body of load_rhyme_data: open() raises when the file is missing,
\* json.load raises when it is not JSON, and anything that parses is returned
\* as it is
load_rhyme_data_body(state, file) ==
    IF state = "missing" THEN Raise("FileNotFoundError")
    ELSE IF state = "corrupt" THEN Raise("JSONDecodeError")
    ELSE Return(file)

RECURSIVE index_entries_prepend(_, _, _, _)
\* an inner loop that inserts each reading in front of the earlier ones
index_entries_prepend(final, entries, j, char_index) ==
    IF j > Len(entries) THEN char_index
    ELSE LET entry == entries[j]
             char == entry.char
             item == <<final, entry.jyutping, entry.tone>>
             old == IF char \in DOMAIN char_index THEN char_index[char] ELSE <<>>
         IN  index_entries_prepend(final, entries, j + 1,
                 [c \in DOMAIN char_index \cup {char} |->
                     IF c = char THEN <<item>> \o old ELSE char_index[c]])

RECURSIVE index_entries(_, _, _, _)
\* the inner loop of build_character_index, from entry j of one final on
index_entries(final, entries, j, char_index) ==
    IF j > Len(entries) THEN char_index
    ELSE LET entry == entries[j]
             char == entry.char
             item == <<final, entry.jyutping, entry.tone>>
             old == IF char \in DOMAIN char_index THEN char_index[char] ELSE <<>>
         IN  index_entries(final, entries, j + 1,
                 [c \in DOMAIN char_index \cup {char} |->
                     IF c = char THEN Append(old, item) ELSE char_index[c]])

RECURSIVE index_finals_reset(_, _, _)
\* an outer loop that starts the list of a character anew at every final
index_finals_reset(rhyme_data, i, char_index) ==
    IF i > Len(rhyme_data) THEN char_index
    ELSE LET entries == GetCharacters(rhyme_data[i].value)
             here == {entries[j].char : j \in 1 .. Len(entries)}
             kept == [c \in DOMAIN char_index \ here |-> char_index[c]]
         IN  index_finals_reset(rhyme_data, i + 1,
                 index_entries(rhyme_data[i].key, entries, 1, kept))

RECURSIVE index_finals(_, _, _)
\* the outer loop of build_character_index, from final i on
index_finals(rhyme_data, i, char_index) ==
    IF i > Len(rhyme_data) THEN char_index
    ELSE index_finals(rhyme_data, i + 1,
             index_entries(rhyme_data[i].key,
                           GetCharacters(rhyme_data[i].value), 1, char_index))

\* entry["char"], entry["jyutping"], entry["tone"]: a KeyError where the
\* reading lacks one of them
entry_key_error(entry) == ~({"char", "jyutping", "tone"} \subseteq DOMAIN entry)

\* some reading met by the loops of build_character_index raises
index_key_error(rhyme_data) ==
    \E i \in 1 .. Len(rhyme_data) :
        \E j \in 1 .. Len(GetCharacters(rhyme_data[i].value)) :
            entry_key_error(GetCharacters(rhyme_data[i].value)[j])

\* the body of build_character_index, given what load_rhyme_data returned
build_character_index_body(rhyme_data) ==
    IF index_key_error(rhyme_data) THEN Raise("KeyError")
    ELSE Return(index_finals(rhyme_data, 1, [c \in {} |-> <<>>]))

\* char_index.get(char)
get_character_info(char_index, char) ==
    IF char \in DOMAIN char_index THEN Some(char_index[char]) ELSE None

get_tone_group(tone, system) ==
    LET mapping == IF system = "1056" THEN tinci_TONE_TO_1056 ELSE tinci_TONE_TO_0243
    IN  DictGet(mapping, tone, "?")

\* a filter loop that does not skip the input character
keeps_with_self(entry, character, tone_filter, system, target_tone, target_group, tone, input_tone_group) ==
    LET entry_tone == entry.tone
        entry_tone_group == get_tone_group(entry_tone, system)
    IN  IF target_tone # None THEN entry_tone = target_tone[1]
        ELSE IF target_group # None THEN entry_tone_group = target_group[1]
        ELSE IF tone_filter = "same" THEN entry_tone = tone
        ELSE IF tone_filter = "group" THEN entry_tone_group = input_tone_group
        ELSE TRUE

\* a filter loop that tests target_group before target_tone
keeps_group_first(entry, character, tone_filter, system, target_tone, target_group, tone, input_tone_group) ==
    LET entry_tone == entry.tone
        entry_tone_group == get_tone_group(entry_tone, system)
    IN  IF entry.char = character THEN FALSE
        ELSE IF target_group # None THEN entry_tone_group = target_group[1]
        ELSE IF target_tone # None THEN entry_tone = target_tone[1]
        ELSE IF tone_filter = "same" THEN entry_tone = tone
        ELSE IF tone_filter = "group" THEN entry_tone_group = input_tone_group
        ELSE TRUE

\* the body of the filter loop: TRUE when the entry is appended
keeps(entry, character, tone_filter, system, target_tone, target_group, tone, input_tone_group) ==
    LET entry_tone == entry.tone
        entry_tone_group == get_tone_group(entry_tone, system)
        use_target_tone == target_tone # None
        use_target_group == target_group # None
    IN  IF entry.char = character THEN FALSE
        ELSE IF use_target_tone THEN entry_tone = target_tone[1]
        ELSE IF use_target_group THEN entry_tone_group = target_group[1]
        ELSE IF tone_filter = "same" THEN entry_tone = tone
        ELSE IF tone_filter = "group" THEN entry_tone_group = input_tone_group
        ELSE TRUE

\* the dict appended to filtered_rhymes for an entry
rhyme_of(entry, system) ==
    [character |-> entry.char, jyutping |-> entry.jyutping,
     tone |-> entry.tone, tone_group |-> get_tone_group(entry.tone, system)]

\* find_rhyming_characters, given what load_rhyme_data() and
\* build_character_index() return
find_rhyming_characters(rhyme_data, char_index, character, tone_filter, system, limit, target_tone, target_group) ==
    LET char_info == get_character_info(char_index, character)
    IN  IF char_info = None \/ char_info[1] = <<>>
        THEN [error |-> <<"Character '", character, "' not found in rhyme database">>,
              input |-> [character |-> character],
              rhymes |-> <<>>]
        ELSE
        LET final == char_info[1][1][1]
            jyutping == char_info[1][1][2]
            tone == char_info[1][1][3]
            input_tone_group == get_tone_group(tone, system)
            final_data == DataGet(rhyme_data, final)
            all_rhymes == GetCharacters(final_data)
            Keep(entry) == keeps(entry, character, tone_filter, system,
                                 target_tone, target_group, tone, input_tone_group)
            kept == SelectSeq(all_rhymes, Keep)
            filtered_rhymes == [i \in 1 .. Len(kept) |-> rhyme_of(kept[i], system)]
            total_count == Len(filtered_rhymes)
            limited_rhymes == PySliceTo(filtered_rhymes, limit)
        IN  [input |-> [character |-> character, jyutping |-> jyutping,
                        tone |-> tone, tone_group |-> input_tone_group],
             final |-> final,
             system |-> system,
             tone_filter |-> tone_filter,
             rhymes |-> limited_rhymes,
             count |-> Len(limited_rhymes),
             total_count |-> total_count]
            @@ (IF target_tone # None THEN [target_tone |-> target_tone[1]]
                ELSE [x \in {} |-> x])
            @@ (IF target_group # None THEN [target_group |-> target_group[1]]
                ELSE [x \in {} |-> x])

\* a finals list left in stored order
get_available_finals_stored(rhyme_data) == Keys(rhyme_data)

get_available_finals(rhyme_data) == Sorted(Keys(rhyme_data))

\* a lookup that truncates before it filters
get_characters_by_final_cut_first(rhyme_data, final, tone_filter, limit) ==
    IF ~HasKey(rhyme_data, final)
    THEN [error |-> <<"Final '", final, "' not found in rhyme database">>,
          available_finals |-> get_available_finals(rhyme_data)]
    ELSE
    LET all_chars == PySliceTo(GetCharacters(DataGet(rhyme_data, final)), limit)
        Match(c) == c.tone = tone_filter[1]
        filtered == IF tone_filter # None THEN SelectSeq(all_chars, Match)
                    ELSE all_chars
    IN  [final |-> final,
         tone_filter |-> tone_filter,
         characters |-> filtered,
         count |-> Len(filtered),
         total_count |-> Len(filtered)]

\* c["tone"] in the filter of get_characters_by_final: a KeyError where a
\* reading of the final lacks its tone
by_final_key_error(rhyme_data, final, tone_filter) ==
    /\ HasKey(rhyme_data, final)
    /\ tone_filter # None
    /\ \E j \in 1 .. Len(GetCharacters(DataGet(rhyme_data, final))) :
           "tone" \notin DOMAIN GetCharacters(DataGet(rhyme_data, final))[j]

get_characters_by_final(rhyme_data, final, tone_filter, limit) ==
    IF ~HasKey(rhyme_data, final)
    THEN [error |-> <<"Final '", final, "' not found in rhyme database">>,
          available_finals |-> get_available_finals(rhyme_data)]
    ELSE
    LET all_chars == GetCharacters(DataGet(rhyme_data, final))
        Match(c) == c.tone = tone_filter[1]
        filtered == IF tone_filter # None THEN SelectSeq(all_chars, Match)
                    ELSE all_chars
    IN  [final |-> final,
         tone_filter |-> tone_filter,
         characters |-> PySliceTo(filtered, limit),
         count |-> Len(PySliceTo(filtered, limit)),
         total_count |-> Len(filtered)]

(***************************************************************************)
(* functools.lru_cache(maxsize=1) around a function of no arguments: a     *)
(* hit returns the stored value, a miss runs the body and stores what it   *)
(* returns; an exception of the body passes to the caller and nothing is   *)
(* stored.  Each operator gives the outcome of the call (error is None and *)
(* value what was returned, or error holds the exception) and the caches   *)
(* and counters after the call.                                            *)
(***************************************************************************)
\* a wrapper that remembers a failure: once the body has raised, every
\* later call fails without running the body again
load_rhyme_data_once(state, file, dcache, loads) ==
    IF dcache # None
    THEN [value |-> dcache[1], error |-> None, dcache |-> dcache, loads |-> loads]
    ELSE IF loads >= 1
    THEN [value |-> None, error |-> Some("DataUnavailable"), dcache |-> None,
          loads |-> loads]
    ELSE LET r == load_rhyme_data_body(state, file)
         IN  IF r.ok
             THEN [value |-> r.value, error |-> None, dcache |-> Some(r.value),
                   loads |-> loads + 1]
             ELSE [value |-> None, error |-> Some(r.error), dcache |-> None,
                   loads |-> loads + 1]

\* a wrapper whose hit hands the value out and drops it from the cache
load_rhyme_data_forgetful(state, file, dcache, loads) ==
    IF dcache # None
    THEN [value |-> dcache[1], error |-> None, dcache |-> None, loads |-> loads]
    ELSE LET r == load_rhyme_data_body(state, file)
         IN  IF r.ok
             THEN [value |-> r.value, error |-> None, dcache |-> Some(r.value),
                   loads |-> loads + 1]
             ELSE [value |-> None, error |-> Some(r.error), dcache |-> None,
                   loads |-> loads + 1]

load_rhyme_data(state, file, dcache, loads) ==
    IF dcache # None
    THEN [value |-> dcache[1], error |-> None, dcache |-> dcache, loads |-> loads]
    ELSE LET r == load_rhyme_data_body(state, file)
         IN  IF r.ok
             THEN [value |-> r.value, error |-> None, dcache |-> Some(r.value),
                   loads |-> loads + 1]
             ELSE [value |-> None, error |-> Some(r.error), dcache |-> None,
                   loads |-> loads + 1]

build_character_index(state, file, dcache, icache, loads, builds) ==
    IF icache # None
    THEN [value |-> icache[1], error |-> None, dcache |-> dcache,
          icache |-> icache, loads |-> loads, builds |-> builds]
    ELSE LET d == load_rhyme_data(state, file, dcache, loads)
             r == build_character_index_body(d.value)
         IN  IF d.error # None
             THEN [value |-> None, error |-> d.error, dcache |-> d.dcache,
                   icache |-> None, loads |-> d.loads, builds |-> builds + 1]
             ELSE IF r.ok
             THEN [value |-> r.value, error |-> None, dcache |-> d.dcache,
                   icache |-> Some(r.value), loads |-> d.loads,
                   builds |-> builds + 1]
             ELSE [value |-> None, error |-> Some(r.error), dcache |-> d.dcache,
                   icache |-> None, loads |-> d.loads, builds |-> builds + 1]

(***************************************************************************)
(* The data files and the arguments the model draws from.                  *)
(***************************************************************************)
Chars == {"A", "B"}
QueryChars == Chars \cup {"Z"}
AllFinals == {"aa", "o", "oi"}
QueryFinals == AllFinals \cup {"zzz"}
Systems == {"1056", "0243"}
ToneFilters == {"all", "same", "group"}
Limits == (-1) .. 2
TargetTones == {None, Some(2), Some(3)}
TargetGroups == {None, Some("3")}
ToneInputs == 0 .. 10

\* the initial consonant of each character's syllable
Initial(c) == IF c = "A" THEN "" ELSE "ng"

\* one entry of a final's character list, as the scraper writes it
Reading(final, c, t) ==
    [char |-> c, jyutping |-> <<Initial(c), final, t>>, tone |-> t]

\* the entries a final's list is made of: two readings of each character,
\* with an equal tone (3), tones of one group (1, 2) and of two groups
ReadingsOf(final) ==
    {Reading(final, "A", 1), Reading(final, "A", 3),
     Reading(final, "B", 2), Reading(final, "B", 3)}

\* the lists of at most n entries, each entry once, as the scraper leaves
\* one (character, jyutping) pair once in a list
EntryLists(final, n) ==
    UNION {{cs \in [1 .. k -> ReadingsOf(final)] :
                \A a, b \in 1 .. k : cs[a] = cs[b] => a = b} : k \in 0 .. n}

Item(final, cs) == [key |-> final, value |-> [characters |-> cs]]

\* files with two finals, stored in an order that is not the sorted one; the
\* second final holds at most two entries
Files2 ==
    {<<Item("oi", p[1]), Item("aa", p[2])>> :
        p \in {q \in EntryLists("oi", MaxReadings) \X EntryLists("aa", 2) :
                  Len(q[1]) + Len(q[2]) <= MaxReadings}}

\* files with three finals in every stored order
Files3 ==
    {<<Item(p[1], <<Reading(p[1], "A", 1)>>), Item(p[2], <<Reading(p[2], "B", 2)>>),
       Item(p[3], <<>>)>> :
        p \in {q \in [1 .. 3 -> AllFinals] : Cardinality({q[1], q[2], q[3]}) = 3}}

Files == {<<>>} \cup Files2 \cup Files3

NoThreads == [t \in Threads |-> "idle"]
NoFrames == [t \in Threads |-> None]

Init ==
    /\ rhyme_file \in Files
    /\ file_state = "ok"
    /\ data_cache = None
    /\ index_cache = None
    /\ load_calls = 0
    /\ build_calls = 0
    /\ call = [op |-> "none"]
    /\ result = None
    /\ raised = None
    /\ pc = NoThreads
    /\ frame = NoFrames

(***************************************************************************)
(* Requests served one at a time: a tool call runs its handler to the end  *)
(* and leaves its arguments and its result in call and result; Respond     *)
(* hands the result to the client and the server is idle again.            *)
(***************************************************************************)
Idle == call = [op |-> "none"]

FindRhymes ==
    /\ Idle
    /\ \E character \in QueryChars, tone_filter \in ToneFilters, system \in Systems,
          limit \in Limits, target_tone \in TargetTones, target_group \in TargetGroups :
        LET idx == build_character_index(file_state, rhyme_file, data_cache,
                                         index_cache, load_calls, build_calls)
            found == get_character_info(idx.value, character) # None
            d == IF idx.error = None /\ found
                 THEN load_rhyme_data(file_state, rhyme_file, idx.dcache, idx.loads)
                 ELSE [value |-> <<>>, error |-> None, dcache |-> idx.dcache,
                       loads |-> idx.loads]
        IN  /\ call' = [op |-> "find_rhymes", character |-> character,
                        tone_filter |-> tone_filter, system |-> system,
                        limit |-> limit, target_tone |-> target_tone,
                        target_group |-> target_group]
            /\ IF idx.error # None
               THEN result' = None /\ raised' = idx.error
               ELSE IF d.error # None
               THEN result' = None /\ raised' = d.error
               ELSE /\ result' = find_rhyming_characters(d.value, idx.value,
                                     character, tone_filter, system, limit,
                                     target_tone, target_group)
                    /\ raised' = None
            /\ data_cache' = d.dcache
            /\ index_cache' = idx.icache
            /\ load_calls' = d.loads
            /\ build_calls' = idx.builds
            /\ UNCHANGED <<rhyme_file, file_state, pc, frame>>

GetCharactersByFinal ==
    /\ Idle
    /\ \E final \in QueryFinals, tone_filter \in {None, Some(1), Some(3)},
          limit \in Limits :
        LET d == load_rhyme_data(file_state, rhyme_file, data_cache, load_calls)
        IN  /\ call' = [op |-> "characters_for_final", final |-> final,
                        tone_filter |-> tone_filter, limit |-> limit]
            /\ IF d.error # None
               THEN result' = None /\ raised' = d.error
               ELSE IF by_final_key_error(d.value, final, tone_filter)
               THEN result' = None /\ raised' = Some("KeyError")
               ELSE /\ result' = get_characters_by_final(d.value, final,
                                                         tone_filter, limit)
                    /\ raised' = None
            /\ data_cache' = d.dcache
            /\ load_calls' = d.loads
            /\ UNCHANGED <<rhyme_file, file_state, index_cache, build_calls,
                           pc, frame>>

GetAvailableFinals ==
    /\ Idle
    /\ LET d == load_rhyme_data(file_state, rhyme_file, data_cache, load_calls)
       IN  /\ call' = [op |-> "list_finals"]
           /\ IF d.error # None
              THEN result' = None /\ raised' = d.error
              ELSE result' = get_available_finals(d.value) /\ raised' = None
           /\ data_cache' = d.dcache
           /\ load_calls' = d.loads
           /\ UNCHANGED <<rhyme_file, file_state, index_cache, build_calls,
                          pc, frame>>

GetCharacterInfo ==
    /\ Idle
    /\ \E char \in QueryChars :
        LET idx == build_character_index(file_state, rhyme_file, data_cache,
                                         index_cache, load_calls, build_calls)
        IN  /\ call' = [op |-> "lookup_character", char |-> char]
            /\ IF idx.error # None
               THEN result' = None /\ raised' = idx.error
               ELSE result' = get_character_info(idx.value, char) /\ raised' = None
            /\ data_cache' = idx.dcache
            /\ index_cache' = idx.icache
            /\ load_calls' = idx.loads
            /\ build_calls' = idx.builds
            /\ UNCHANGED <<rhyme_file, file_state, pc, frame>>

MapTone ==
    /\ Idle
    /\ \E tone \in ToneInputs, system \in Systems :
        /\ call' = [op |-> "map_tone", tone |-> tone, system |-> system]
        /\ result' = map_tone(tone, system)
        /\ UNCHANGED <<rhyme_file, file_state, data_cache, index_cache,
                       load_calls, build_calls, raised, pc, frame>>

Respond ==
    /\ ~Idle
    /\ call' = [op |-> "none"]
    /\ result' = None
    /\ raised' = None
    /\ UNCHANGED <<rhyme_file, file_state, data_cache, index_cache, load_calls,
                   build_calls, pc, frame>>

Next ==
    \/ FindRhymes
    \/ GetCharactersByFinal
    \/ GetAvailableFinals
    \/ GetCharacterInfo
    \/ MapTone
    \/ Respond

Spec == Init /\ [][Next]_vars

(***************************************************************************)
(* The tone analyzer on its own: no data file is involved.                 *)
(***************************************************************************)
\* syllables as the romanizer may give them, and some it does not give:
\* empty, without a tone, with the tones 1, 2, 5 and 9, ending in 0, ending in
\* a fullwidth five and ending in a superscript two
Syllables ==
    {<<>>, <<"a", "b", "c">>, <<"j", "a", "t", "1">>, <<"h", "o", "u", "2">>,
     <<"n", "e", "i", "5">>, <<"s", "i", "k", "9">>, <<"x", "0">>,
     <<"n", "e", "i", "U+FF15">>, <<"a", "U+00B2">>}

Pairs == Chars \X Syllables

PairLists == UNION {[1 .. k -> Pairs] : k \in 0 .. MaxPairs}

InitTone ==
    /\ rhyme_file = <<>>
    /\ file_state = "ok"
    /\ data_cache = None
    /\ index_cache = None
    /\ load_calls = 0
    /\ build_calls = 0
    /\ call = [op |-> "none"]
    /\ result = None
    /\ raised = None
    /\ pc = NoThreads
    /\ frame = NoFrames

ExtractTone ==
    /\ Idle
    /\ \E jyutping \in Syllables :
        /\ call' = [op |-> "extract_tone", jyutping |-> jyutping]
        /\ result' = extract_tone_from_jyutping(jyutping)
        /\ UNCHANGED <<rhyme_file, file_state, data_cache, index_cache,
                       load_calls, build_calls, raised, pc, frame>>

AnalyzeTones ==
    /\ Idle
    /\ \E jyutping_pairs \in PairLists, system \in Systems :
        /\ call' = [op |-> "analyze_tones", jyutping_pairs |-> jyutping_pairs,
                    system |-> system]
        /\ result' = analyze_tones(jyutping_pairs, system)
        /\ UNCHANGED <<rhyme_file, file_state, data_cache, index_cache,
                       load_calls, build_calls, raised, pc, frame>>

NextTone ==
    \/ ExtractTone
    \/ AnalyzeTones
    \/ MapTone
    \/ Respond

SpecTone == InitTone /\ [][NextTone]_vars

(***************************************************************************)
(* Requests served by several threads at once.  The lru_cache wrapper      *)
(* looks the value up, and on a miss runs the body without holding any     *)
(* lock and stores what the body returned: another thread may look the     *)
(* value up between this thread's miss and its store.                      *)
(***************************************************************************)
ConcFiles == Files3 \cup {<<>>}

InitConc ==
    /\ rhyme_file \in ConcFiles
    /\ file_state = "ok"
    /\ data_cache = None
    /\ index_cache = None
    /\ load_calls = 0
    /\ build_calls = 0
    /\ call = [op |-> "none"]
    /\ result = None
    /\ raised = None
    /\ pc = NoThreads
    /\ frame = NoFrames

Shared == <<rhyme_file, file_state, call, result, raised>>

\* where a thread goes once load_rhyme_data() has returned
AfterData(t) == IF frame[t].op = "lookup_character" THEN "build" ELSE "finish"

\* a thread's locals as a request starts: the data and the index it was
\* handed, the dict char_index its own build is filling and the position i
\* of the outer loop, and what the request returned or raised
NewFrame(op, char) ==
    [op |-> op, char |-> char, data |-> None, index |-> None,
     char_index |-> [c \in {} |-> <<>>], i |-> 1, ret |-> None, exc |-> None]

\* a thread takes a request: get_character_info(char) or get_available_finals()
Begin(t) ==
    /\ pc[t] = "idle"
    /\ \E op \in {"lookup_character", "list_finals"}, char \in QueryChars :
        /\ op = "list_finals" => char = "Z"
        /\ frame' = [frame EXCEPT ![t] = NewFrame(op, char)]
        /\ pc' = [pc EXCEPT ![t] = IF op = "lookup_character" THEN "index_lookup"
                                   ELSE "data_lookup"]
    /\ UNCHANGED <<Shared, data_cache, index_cache, load_calls, build_calls>>

\* build_character_index(): the cache lookup; a miss enters the body
IndexLookup(t) ==
    /\ pc[t] = "index_lookup"
    /\ IF index_cache # None
       THEN /\ frame' = [frame EXCEPT ![t].index = index_cache]
            /\ pc' = [pc EXCEPT ![t] = "finish"]
            /\ UNCHANGED build_calls
       ELSE /\ build_calls' = build_calls + 1
            /\ pc' = [pc EXCEPT ![t] = "data_lookup"]
            /\ UNCHANGED frame
    /\ UNCHANGED <<Shared, data_cache, index_cache, load_calls>>

\* load_rhyme_data(): the cache lookup
DataLookup(t) ==
    /\ pc[t] = "data_lookup"
    /\ IF data_cache # None
       THEN /\ frame' = [frame EXCEPT ![t].data = data_cache]
            /\ pc' = [pc EXCEPT ![t] = AfterData(t)]
       ELSE /\ pc' = [pc EXCEPT ![t] = "load"]
            /\ UNCHANGED frame
    /\ UNCHANGED <<Shared, data_cache, index_cache, load_calls, build_calls>>

\* load_rhyme_data(): the body runs and its value is stored; an exception
\* ends the request and stores nothing
Load(t) ==
    /\ pc[t] = "load"
    /\ load_calls' = load_calls + 1
    /\ LET r == load_rhyme_data_body(file_state, rhyme_file)
       IN  IF r.ok
           THEN /\ frame' = [frame EXCEPT ![t].data = Some(r.value)]
                /\ data_cache' = Some(r.value)
                /\ pc' = [pc EXCEPT ![t] = AfterData(t)]
           ELSE /\ frame' = [frame EXCEPT ![t].exc = Some(r.error)]
                /\ pc' = [pc EXCEPT ![t] = "idle"]
                /\ UNCHANGED data_cache
    /\ UNCHANGED <<Shared, index_cache, build_calls>>

\* an index cache that takes the dict while the loops are still filling it
cache_after_build_early(icache, char_index, returned) == Some(char_index)

\* the index cache after a step of build_character_index's body: the
\* wrapper stores the dict the body returns, and nothing before it returns
cache_after_build(icache, char_index, returned) ==
    IF returned THEN Some(char_index) ELSE icache

\* build_character_index(): one turn of the outer loop, on the thread's own
\* dict; a reading that lacks a field ends the request with a KeyError
BuildStep(t) ==
    /\ pc[t] = "build"
    /\ frame[t].i <= Len(frame[t].data[1])
    /\ LET item == frame[t].data[1][frame[t].i]
           entries == GetCharacters(item.value)
       IN  IF \E j \in 1 .. Len(entries) : entry_key_error(entries[j])
           THEN /\ frame' = [frame EXCEPT ![t].exc = Some("KeyError")]
                /\ pc' = [pc EXCEPT ![t] = "idle"]
                /\ UNCHANGED index_cache
           ELSE LET filled == index_entries(item.key, entries, 1,
                                           frame[t].char_index)
                IN  /\ frame' = [frame EXCEPT ![t].char_index = filled,
                                              ![t].i = @ + 1]
                    /\ index_cache' = cache_after_build(index_cache, filled, FALSE)
                    /\ UNCHANGED pc
    /\ UNCHANGED <<Shared, data_cache, load_calls, build_calls>>

\* build_character_index(): the loops are over, the body returns its dict
\* and the wrapper stores it
BuildReturn(t) ==
    /\ pc[t] = "build"
    /\ frame[t].i > Len(frame[t].data[1])
    /\ frame' = [frame EXCEPT ![t].index = Some(frame[t].char_index)]
    /\ index_cache' = cache_after_build(index_cache, frame[t].char_index, TRUE)
    /\ pc' = [pc EXCEPT ![t] = "finish"]
    /\ UNCHANGED <<Shared, data_cache, load_calls, build_calls>>

\* the request returns its value
Finish(t) ==
    /\ pc[t] = "finish"
    /\ frame' = [frame EXCEPT ![t].ret =
                     IF frame[t].op = "lookup_character"
                     THEN Some(get_character_info(frame[t].index[1], frame[t].char))
                     ELSE Some(get_available_finals(frame[t].data[1]))]
    /\ pc' = [pc EXCEPT ![t] = "idle"]
    /\ UNCHANGED <<Shared, data_cache, index_cache, load_calls, build_calls>>

NextConc ==
    \E t \in Threads :
        \/ Begin(t)
        \/ IndexLookup(t)
        \/ DataLookup(t)
        \/ Load(t)
        \/ BuildStep(t)
        \/ BuildReturn(t)
        \/ Finish(t)

SpecConc == InitConc /\ [][NextConc]_vars

(***************************************************************************)
(* Requests served one at a time over a data file that may be missing, not *)
(* JSON, or JSON of another shape than the scraper writes, and that may    *)
(* change between two requests.                                            *)
(***************************************************************************)
\* a file as the scraper writes it
GoodFile ==
    <<Item("oi", <<Reading("oi", "A", 1), Reading("oi", "B", 3)>>),
      Item("aa", <<Reading("aa", "A", 3)>>)>>

\* a file in which the final "aa" has no "characters" list
NoListFile ==
    <<Item("oi", <<Reading("oi", "A", 1)>>), [key |-> "aa", value |-> [count |-> 0]]>>

\* files in which one reading of "oi" lacks its char, its jyutping or its tone
NoCharFile ==
    <<Item("oi", <<Reading("oi", "A", 1), [jyutping |-> <<"ng", "oi", 3>>, tone |-> 3]>>)>>

NoJyutpingFile ==
    <<Item("oi", <<Reading("oi", "A", 1), [char |-> "B", tone |-> 3]>>)>>

NoToneFile ==
    <<Item("oi", <<Reading("oi", "A", 1), [char |-> "B", jyutping |-> <<"ng", "oi", 3>>]>>)>>

LoadFiles == {GoodFile, NoListFile, NoCharFile, NoJyutpingFile, NoToneFile}

FileStates == {"ok", "missing", "corrupt"}

InitLoad ==
    /\ rhyme_file \in LoadFiles
    /\ file_state \in FileStates
    /\ data_cache = None
    /\ index_cache = None
    /\ load_calls = 0
    /\ build_calls = 0
    /\ call = [op |-> "none"]
    /\ result = None
    /\ raised = None
    /\ pc = NoThreads
    /\ frame = NoFrames

\* between two requests the file is removed, overwritten with something
\* that is not JSON, or written again
FileChanges ==
    /\ Idle
    /\ \E state \in FileStates \ {file_state} : file_state' = state
    /\ UNCHANGED <<rhyme_file, data_cache, index_cache, load_calls, build_calls,
                   call, result, raised, pc, frame>>

\* requests are taken while the bodies have run fewer than MaxCalls times
CallsLeft == load_calls < MaxCalls /\ build_calls < MaxCalls

NextLoad ==
    \/ CallsLeft /\ FindRhymes
    \/ CallsLeft /\ GetCharactersByFinal
    \/ CallsLeft /\ GetAvailableFinals
    \/ CallsLeft /\ GetCharacterInfo
    \/ Respond
    \/ FileChanges

SpecLoad == InitLoad /\ [][NextLoad]_vars

(***************************************************************************)
(* Vocabulary of the properties, computed from the data file itself.       *)
(***************************************************************************)
IsFind == call.op = "find_rhymes"
IsByFinal == call.op = "characters_for_final"
Found == IsFind /\ "error" \notin DOMAIN result

Min(a, b) == IF a < b THEN a ELSE b
Prefix(s, n) == SubSeq(s, 1, Min(n, Len(s)))

FileEntries(i) == rhyme_file[i].value.characters
Holds(i, c) == \E j \in 1 .. Len(FileEntries(i)) : FileEntries(i)[j].char = c
InFile(c) == \E i \in 1 .. Len(rhyme_file) : Holds(i, c)

\* position of the first final, in stored order, that lists character c
FirstFinalOf(c) ==
    CHOOSE i \in 1 .. Len(rhyme_file) :
        Holds(i, c) /\ \A k \in 1 .. i - 1 : ~Holds(k, c)

\* the first entry of c under that final
FirstReadingOf(c) ==
    LET es == FileEntries(FirstFinalOf(c))
        j == CHOOSE n \in 1 .. Len(es) :
                 es[n].char = c /\ \A k \in 1 .. n - 1 : es[k].char # c
    IN  es[j]

\* the other characters' entries under that final, in stored order
Siblings(c) ==
    LET Other(e) == e.char # c
    IN  SelectSeq(FileEntries(FirstFinalOf(c)), Other)

\* the one filter clause that applies to the request in call
ClauseHolds(e) ==
    IF call.target_tone # None THEN e.tone = call.target_tone[1]
    ELSE IF call.target_group # None
         THEN get_tone_group(e.tone, call.system) = call.target_group[1]
    ELSE CASE call.tone_filter = "same" ->
                  e.tone = FirstReadingOf(call.character).tone
           [] call.tone_filter = "group" ->
                  get_tone_group(e.tone, call.system) =
                      get_tone_group(FirstReadingOf(call.character).tone, call.system)
           [] call.tone_filter = "all" -> TRUE

\* the filtered set of the request in call
Expected == SelectSeq(Siblings(call.character), ClauseHolds)

\* the rhymes of the result, as entries of the file
Shown ==
    [i \in 1 .. Len(result.rhymes) |->
        [char |-> result.rhymes[i].character,
         jyutping |-> result.rhymes[i].jyutping,
         tone |-> result.rhymes[i].tone]]

(***************************************************************************)
(* Properties.                                                             *)
(***************************************************************************)

\* C1: no entry of the rhymes list returned by find_rhymes has the queried
\* character, whatever the arguments and the data file.
C1_NoSelfRhyme ==
    IsFind => \A i \in 1 .. Len(result.rhymes) :
                  result.rhymes[i].character # call.character

\* C1 witness: the queried character is listed twice under its final, next to
\* another character that is returned.
C1_Witness ==
    /\ Found
    /\ LET es == FileEntries(FirstFinalOf(call.character))
       IN  Cardinality({j \in 1 .. Len(es) : es[j].char = call.character}) >= 2
    /\ Len(result.rhymes) >= 1

\* C2: exactly one filter clause applies, in the priority order target_tone,
\* target_group, tone_filter: the filtered set is counted by total_count and
\* every returned rhyme satisfies that clause.
C2_FilterPriority ==
    Found => /\ result.total_count = Len(Expected)
             /\ \A i \in 1 .. Len(Shown) : ClauseHolds(Shown[i])

\* C2 witness: target_tone, target_group and mode "group" are all given, the
\* clause rejects some sibling, and a returned rhyme is outside target_group.
C2_Witness ==
    /\ Found
    /\ call.target_tone # None /\ call.target_group # None
    /\ call.tone_filter = "group"
    /\ result.total_count < Len(Siblings(call.character))
    /\ \E i \in 1 .. Len(result.rhymes) :
           result.rhymes[i].tone_group # call.target_group[1]

\* C3: the input is resolved by its first reading in dataset order, and with
\* mode "all" and no target the filtered set is the other characters' entries
\* under that reading's final, in order; a final holding only the input gives
\* an empty list and total_count 0, not an error.
C3_FirstReadingAll ==
    (/\ IsFind /\ InFile(call.character)
     /\ call.tone_filter = "all"
     /\ call.target_tone = None /\ call.target_group = None)
    => /\ "error" \notin DOMAIN result
       /\ result.final = rhyme_file[FirstFinalOf(call.character)].key
       /\ result.input.jyutping = FirstReadingOf(call.character).jyutping
       /\ result.input.tone = FirstReadingOf(call.character).tone
       /\ result.total_count = Len(Siblings(call.character))
       /\ call.limit >= 0 => Shown = Prefix(Siblings(call.character), call.limit)

\* C3 witness: the input is listed under both finals and a rhyme is returned.
C3_Witness ==
    /\ Found
    /\ call.tone_filter = "all"
    /\ call.target_tone = None /\ call.target_group = None
    /\ Len(rhyme_file) = 2
    /\ Holds(1, call.character) /\ Holds(2, call.character)
    /\ Len(result.rhymes) >= 1

\* C4: for every limit <= 0 find_rhymes returns no rhymes and count 0, and
\* total_count is still the size of the filtered set.
C4_NonPositiveLimit ==
    (Found /\ call.limit <= 0)
    => /\ result.rhymes = <<>>
       /\ result.count = 0
       /\ result.total_count = Len(Expected)

\* C5: for every limit >= 0 the rhymes are the first min(total_count, limit)
\* entries of the filtered set in dataset order, count is their number, and
\* total_count is the size of the filtered set whatever the limit.
C5_Truncation ==
    (Found /\ call.limit >= 0)
    => /\ Shown = Prefix(Expected, call.limit)
       /\ result.count = Len(result.rhymes)
       /\ result.count = Min(result.total_count, call.limit)
       /\ result.total_count = Len(Expected)

\* C5 witness: a positive limit smaller than the filtered set.
C5_Witness ==
    /\ Found
    /\ call.limit >= 1
    /\ call.limit < result.total_count

\* C6: a character missing from the index and a final missing from the data
\* each give a result with an error field: the first echoes the character and
\* has no rhymes, the second lists every final of the data once, sorted.
C6_NotFoundIsAResult ==
    /\ (IsFind /\ ~InFile(call.character))
       => /\ "error" \in DOMAIN result
          /\ result.input = [character |-> call.character]
          /\ result.rhymes = <<>>
    /\ (IsByFinal /\ \A i \in 1 .. Len(rhyme_file) : rhyme_file[i].key # call.final)
       => /\ "error" \in DOMAIN result
          /\ LET af == result.available_finals
             IN  /\ {af[i] : i \in 1 .. Len(af)} =
                        {rhyme_file[i].key : i \in 1 .. Len(rhyme_file)}
                 /\ \A i, j \in 1 .. Len(af) : i < j => StrLess(af[i], af[j])

\* C6 witness: an unknown final asked of a file whose three finals are not
\* stored in sorted order.
C6_Witness ==
    /\ IsByFinal
    /\ "error" \in DOMAIN result
    /\ Len(rhyme_file) = 3
    /\ result.available_finals # Keys(rhyme_file)

\* C7: for a final of the data and a limit >= 0, characters are the first
\* limit entries of the final with the filtered tone (all entries without a
\* filter), in order; count is their number and total_count the number of
\* matching entries.
C7_CharactersForFinal ==
    (/\ IsByFinal /\ call.limit >= 0
     /\ \E i \in 1 .. Len(rhyme_file) : rhyme_file[i].key = call.final)
    => LET i == CHOOSE n \in 1 .. Len(rhyme_file) : rhyme_file[n].key = call.final
           Match(e) == call.tone_filter = None \/ e.tone = call.tone_filter[1]
           matching == SelectSeq(FileEntries(i), Match)
       IN  /\ "error" \notin DOMAIN result
           /\ result.characters = Prefix(matching, call.limit)
           /\ result.count = Len(result.characters)
           /\ result.total_count = Len(matching)

\* C7 witness: a tone filter that rejects an entry and a limit that cuts the
\* matching ones.
C7_Witness ==
    /\ IsByFinal
    /\ "error" \notin DOMAIN result
    /\ call.tone_filter # None
    /\ call.limit >= 1
    /\ call.limit < result.total_count
    /\ \E i \in 1 .. Len(rhyme_file) :
           rhyme_file[i].key = call.final
           /\ result.total_count < Len(FileEntries(i))

\* the tone groups as the specification tabulates them
ClaimClassify(tone, scheme) ==
    IF scheme = "1056"
    THEN CASE tone \in {1, 2, 7} -> "1"
           [] tone \in {4} -> "0"
           [] tone \in {3, 5, 8} -> "5"
           [] tone \in {6, 9} -> "6"
           [] OTHER -> "?"
    ELSE CASE tone \in {1, 2, 7} -> "3"
           [] tone \in {4} -> "0"
           [] tone \in {3, 5, 8} -> "2"
           [] tone \in {6, 9} -> "4"
           [] OTHER -> "?"

ClaimTone(syllable) ==
    IF /\ syllable # <<>>
       /\ syllable[Len(syllable)] \in DOMAIN DecimalValue
       /\ DecimalValue[syllable[Len(syllable)]] \in 1 .. 9
    THEN Some(DecimalValue[syllable[Len(syllable)]])
    ELSE None

RECURSIVE ClaimPattern(_, _)
\* the labels of the pairs that have a tone, in input order
ClaimPattern(pairs, scheme) ==
    IF pairs = <<>> THEN <<>>
    ELSE (IF ClaimTone(Head(pairs)[2]) = None THEN <<>>
          ELSE <<ClaimClassify(ClaimTone(Head(pairs)[2])[1], scheme)>>)
         \o ClaimPattern(Tail(pairs), scheme)

\* C9: analyze_tones returns, for every list of pairs, one breakdown record
\* per pair in input order and the pattern of the labels of the pairs whose
\* syllable ends in a digit 1..9; the other pairs have tone and mapped none.
C9_AnalyzeTones ==
    call.op = "analyze_tones" =>
        /\ result.ok
        /\ LET ps == call.jyutping_pairs
               r == result.value
           IN  /\ Len(r.breakdown) = Len(ps)
               /\ \A i \in 1 .. Len(ps) :
                      /\ r.breakdown[i].character = ps[i][1]
                      /\ r.breakdown[i].jyutping = ps[i][2]
                      /\ r.breakdown[i].tone = ClaimTone(ps[i][2])
                      /\ r.breakdown[i].mapped =
                             IF ClaimTone(ps[i][2]) = None THEN None
                             ELSE Some(ClaimClassify(ClaimTone(ps[i][2])[1],
                                                     call.system))
               /\ r.pattern = ClaimPattern(ps, call.system)

\* C10: under every interleaving of requests the data load and the index
\* build each run at most once in a process.
C10_BuiltAtMostOnce == load_calls <= 1 /\ build_calls <= 1

\* a query of the rhyme data has been served
IsDataQuery ==
    call.op \in {"find_rhymes", "characters_for_final", "list_finals",
                 "lookup_character"}

\* every final has its character list and every reading its three fields
WellFormed(data) ==
    \A i \in 1 .. Len(data) :
        /\ "characters" \in DOMAIN data[i].value
        /\ \A j \in 1 .. Len(data[i].value.characters) :
               {"char", "jyutping", "tone"} \subseteq DOMAIN data[i].value.characters[j]

\* C11: the load fails, and the failure reaches the caller, whenever the data
\* file is missing or malformed, a final without a character list and a
\* reading without its char, syllable or tone included: data that is not
\* well formed is never loaded, and a query that returns normally was
\* computed from loaded, well-formed data.
C11_MalformedDataFails ==
    /\ data_cache # None => WellFormed(data_cache[1])
    /\ (IsDataQuery /\ raised = None) =>
           (data_cache # None /\ WellFormed(data_cache[1]))

\* what the two functions return when their bodies run on the data file
FreshData == load_rhyme_data_body("ok", rhyme_file).value
FreshIndex == build_character_index_body(FreshData).value

\* what the query in call returns when computed from those
FreshResult ==
    CASE call.op = "find_rhymes" ->
             find_rhyming_characters(FreshData, FreshIndex, call.character,
                 call.tone_filter, call.system, call.limit, call.target_tone,
                 call.target_group)
      [] call.op = "characters_for_final" ->
             get_characters_by_final(FreshData, call.final, call.tone_filter,
                                     call.limit)
      [] call.op = "list_finals" -> get_available_finals(FreshData)
      [] call.op = "lookup_character" -> get_character_info(FreshIndex, call.char)

\* C12: no query changes the memoized data or the memoized index once they
\* are there, and every query returns what it returns when the data is
\* loaded and the index built afresh, so that equal queries have equal
\* results whatever was served before.  (The result is looked at in the
\* state a step leaves: every served query is left by Respond.)
C12_MemoizedUnchanged ==
    [][/\ data_cache # None => data_cache' = data_cache
       /\ index_cache # None => index_cache' = index_cache
       /\ IsDataQuery => result = FreshResult]_vars

\* a query of a final is served after an earlier request built the index
C12_Witness ==
    /\ IsByFinal
    /\ build_calls = 1
    /\ "error" \notin DOMAIN result
    /\ result.count = 2

\* the readings of character c under the final stored at position i, in
\* stored order, as (final, jyutping, tone)
TuplesOf(i, c) ==
    LET Mine(e) == e.char = c
        mine == SelectSeq(FileEntries(i), Mine)
    IN  [k \in 1 .. Len(mine) |-> <<rhyme_file[i].key, mine[k].jyutping, mine[k].tone>>]

RECURSIVE TuplesUpTo(_, _)
\* the readings of c under the first n finals of the file
TuplesUpTo(n, c) == IF n = 0 THEN <<>> ELSE TuplesUpTo(n - 1, c) \o TuplesOf(n, c)

ReverseOf(c) == TuplesUpTo(Len(rhyme_file), c)

\* C13: the character index is the exact reverse of the data: its keys are
\* the characters that some final lists, each key holds one (final,
\* jyutping, tone) per reading of the character, finals in stored order and
\* readings in their order within a final; and a character lookup answers
\* "not found" (None) for exactly the characters no final lists, and the
\* character's list for the others.
C13_ReverseIndex ==
    /\ index_cache # None =>
           /\ DOMAIN index_cache[1] = {c \in QueryChars : InFile(c)}
           /\ \A c \in DOMAIN index_cache[1] :
                  /\ index_cache[1][c] = ReverseOf(c)
                  /\ Len(index_cache[1][c]) >= 1
    /\ call.op = "lookup_character" =>
           /\ result = None <=> ~InFile(call.char)
           /\ InFile(call.char) => result = Some(ReverseOf(call.char))

\* a character read under two finals, and twice under one of them, is looked up
C13_Witness ==
    /\ call.op = "lookup_character"
    /\ result # None
    /\ Len(result[1]) = 3
    /\ result[1][1][1] = result[1][2][1]
    /\ result[1][2][1] # result[1][3][1]

\* the index that holds every reading of the data file
CompleteIndex == [c \in {x \in QueryChars : InFile(x)} |-> ReverseOf(c)]

\* C14: under every interleaving of concurrent requests, requests that
\* arrive while an index build is running included, no request observes a
\* partially built index: the index in the cache, and every index a running
\* request was handed, holds every reading of the whole data file.
C14_NoPartialIndex ==
    /\ index_cache # None => index_cache[1] = CompleteIndex
    /\ \A t \in Threads :
           (pc[t] # "idle" /\ frame[t].index # None) =>
               frame[t].index[1] = CompleteIndex

\* a request holds the index it was handed while another thread's build is
\* between two finals, its own dict still short of a character
C14_Witness ==
    \E t, u \in Threads :
        /\ t # u
        /\ pc[t] = "build"
        /\ frame[t].i = 2
        /\ DOMAIN frame[t].char_index # DOMAIN CompleteIndex
        /\ pc[u] = "finish"
        /\ frame[u].op = "lookup_character"
        /\ frame[u].index # None

\* the load has been tried and nothing is memoized: the last try failed
LoadFailed == load_calls >= 1 /\ data_cache = None

\* C15: a failed load is fatal and never retried: once the load has failed,
\* it is not attempted again, nothing is ever memoized and every later
\* query fails, even when the file has become readable.
C15_FailedLoadIsFatal ==
    [][LoadFailed =>
           /\ load_calls' = load_calls
           /\ data_cache' = None
           /\ IsDataQuery' => raised' # None]_vars

\* C15 (as the code has it): a failed load is raised to the caller of that
\* call and is not memoized.  Every later query finds the cache empty and
\* runs the load once more: it fails again, with nothing memoized, while
\* the file is missing or not JSON, and it loads and memoizes the data once
\* the file is readable, with no restart.
C15_FailedLoadIsRetried ==
    [][(LoadFailed /\ IsDataQuery') =>
           /\ load_calls' = load_calls + 1
           /\ IF file_state = "ok"
              THEN data_cache' = Some(rhyme_file)
              ELSE data_cache' = None /\ raised' # None /\ result' = None]_vars

\* a load failed, the file became readable, and a later query was served
\* from the data loaded by the second try
C15_Witness ==
    /\ IsDataQuery
    /\ load_calls = 2
    /\ data_cache # None
    /\ raised = None

====
